---------------------------- MODULE Spec2Model ----------------------------
(***************************************************************************)
(* A model of the indexed-hash-set crate (src/src/lib.rs and               *)
(* src/src/internal_ref.rs): IndexedHashSet<T> is a generational arena of  *)
(* entries plus a HashMap whose keys are raw pointers (InternalRef) to the *)
(* boxed elements of those entries; RcIndex is a handle holding an arena   *)
(* index and a shared Rc<RefCell<usize>> usage counter.                    *)
(*                                                                         *)
(* Conventions.  Slots are numbered from 1 (Rust: from 0) and 0 stands for *)
(* Option::None wherever an index or an address is optional.  The heap is  *)
(* explicit: box maps the address of every live Box<T> to its value and    *)
(* cell maps every live Rc<RefCell<usize>> to its content.  A usize is     *)
(* kept as its residue modulo 2^64 with the representative -1 for          *)
(* usize::MAX, which is exact for the +1, -1 and == 0 the code does.       *)
(*                                                                         *)
(* Every method is an operator from the state before the call to the      *)
(* state after it and the value returned (insert_of, drop_unused_of, ...)  *)
(* and an action that applies it.  The methods that take &self and write   *)
(* nothing (len, get_cnt, get_ref_by_index, iter, RcIndex::cnt, ...) are   *)
(* operators on the state.                                                 *)
(***************************************************************************)
EXTENDS Integers, Sequences, FiniteSets, Bags, TLC

VARIABLES
    arena,      \* arena[s]: the Arena<Entry<T>> of set s
    map,        \* map[s]: the HashMap<InternalRef<T>, AIndex> of set s
    box,        \* heap of Box<T>: address -> element
    cell,       \* heap of Rc<RefCell<usize>>: id -> usage count
    handles,    \* bag of the live RcIndex values
    last,       \* the name of the last call that completed
    owner,      \* owner[s]: the execution context that owns set s
    pc          \* pc[t]: the RcIndex operation context t is in the middle of

vars == <<arena, map, box, cell, handles, last, owner, pc>>

\* the state the methods work on
St == [arena |-> arena, map |-> map, box |-> box, cell |-> cell,
       handles |-> handles]

-----------------------------------------------------------------------------
(* Bounds of the model. *)

\* at most MaxHandles RcIndex values are live at a time
MaxHandles == 3
\* drop_unused is not called once the arena generation would pass MaxGen
MaxGen == 3

\* T = String, with the three elements of the crate's tests
Values == {"Olaf", "Eijnar", "Harald"}
\* Option<&T>::None
NoElem == ""
\* the sets of the model; Spec uses the first only
Sets == {1, 2}
\* the execution contexts (threads); Spec uses the first only
Contexts == {1, 2}

-----------------------------------------------------------------------------
(* The heap. *)

\* the lowest address not in use
AllocLow(heap) ==
    CHOOSE a \in 1..(Cardinality(DOMAIN heap) + 1) :
        /\ a \notin DOMAIN heap
        /\ \A b \in 1..(a - 1) : b \in DOMAIN heap

\* The address a new allocation gets.  The code never looks at an address
\* (it dereferences pointers, and HashMap::insert compares a pointer to a
\* fresh Box with the keys), so any free address does: the one numbered
\* like the slot the entry goes to when that is free, else the lowest.
Alloc(heap, hint) ==
    IF hint \notin DOMAIN heap THEN hint ELSE AllocLow(heap)

\* heap without the addresses in gone
Free(heap, gone) == [a \in (DOMAIN heap) \ gone |-> heap[a]]

\* what reading a freed Box yields: undefined behaviour.  MapValid (claim C9)
\* establishes that no reachable state holds a key that reads this way.
Dangling == "<freed>"

\* InternalRef::as_ref: the element a key points to
as_ref(bx, p) == IF p \in DOMAIN bx THEN bx[p] ELSE Dangling

-----------------------------------------------------------------------------
(* generational_arena::Arena, as IndexedHashSet uses it. *)

\* Arena::new reserves DEFAULT_CAPACITY slots
DEFAULT_CAPACITY == 4

NoIndex == [index |-> 0, generation |-> 0]

FreeSlot(next) ==
    [occupied |-> FALSE, generation |-> 0, elem |-> 0, usage_cnt |-> 0,
     next_free |-> next]

\* an occupied slot holding Entry { elem: Box at address p, usage_cnt: cell c }
OccupiedSlot(gen, p, c) ==
    [occupied |-> TRUE, generation |-> gen, elem |-> p, usage_cnt |-> c,
     next_free |-> 0]

\* Arena::reserve: n more free slots, chained in front of the free list
ArenaReserve(a, n) ==
    LET start == Len(a.items) + 1
        end   == Len(a.items) + n
        more  == [i \in 1..n |->
                    IF start + i - 1 = end THEN FreeSlot(a.free_list_head)
                    ELSE FreeSlot(start + i)]
    IN  [a EXCEPT !.items = a.items \o more, !.free_list_head = start]

ArenaNew ==
    ArenaReserve([items |-> <<>>, generation |-> 0, free_list_head |-> 0,
                  len |-> 0], DEFAULT_CAPACITY)

\* the slot the next Arena::insert fills
ArenaNextSlot(a) ==
    IF a.free_list_head = 0 THEN Len(a.items) + 1 ELSE a.free_list_head

\* Arena::insert of an entry (p, c): the arena after it and the index given
ArenaInsert(a, p, c) ==
    LET a1 == IF a.free_list_head = 0
              THEN ArenaReserve(a, IF Len(a.items) = 0 THEN 1 ELSE Len(a.items))
              ELSE a
        i  == a1.free_list_head
    IN  [arena |-> [a1 EXCEPT !.items[i] = OccupiedSlot(a1.generation, p, c),
                              !.free_list_head = a1.items[i].next_free,
                              !.len = @ + 1],
         index |-> [index |-> i, generation |-> a1.generation]]

\* Arena::get: whether idx names an occupied slot of its generation
ArenaHas(a, idx) ==
    /\ idx.index \in 1..Len(a.items)
    /\ a.items[idx.index].occupied
    /\ a.items[idx.index].generation = idx.generation

\* an Arena::remove that does not count the entry off
ArenaRemove_len_kept(a, idx) ==
    [a EXCEPT !.items[idx.index] = FreeSlot(a.free_list_head),
              !.generation = @ + 1,
              !.free_list_head = idx.index]

\* Arena::remove of a slot that ArenaHas
ArenaRemove(a, idx) ==
    [a EXCEPT !.items[idx.index] = FreeSlot(a.free_list_head),
              !.generation = @ + 1,
              !.free_list_head = idx.index,
              !.len = @ - 1]

\* the occupied slots
Occupied(a) == {i \in 1..Len(a.items) : a.items[i].occupied}

-----------------------------------------------------------------------------
(* HashMap<InternalRef<T>, AIndex>: a set of (key, idx) pairs.  A lookup   *)
(* hashes and compares the element a key points to (internal_ref.rs,       *)
(* Borrow<BorrowWrapper<Q>>); HashMap::insert compares keys with the       *)
(* derived PartialEq of InternalRef, the pointer itself.                   *)

NoKV == [key |-> 0, idx |-> NoIndex]

\* map.get(elem.wrap()) / map.get_key_value(elem.wrap())
MapGet(m, bx, v) ==
    LET hit == {e \in m : as_ref(bx, e.key) = v}
    IN  IF hit = {} THEN NoKV ELSE CHOOSE e \in hit : TRUE

\* map.insert(inner_ref, a_idx)
MapInsert(m, k, idx) ==
    {e \in m : e.key # k} \cup {[key |-> k, idx |-> idx]}

\* a map.remove that forgets to remove
MapRemoveNothing(m, bx, v) == m

\* map.remove(entry.elem().wrap())
MapRemove(m, bx, v) == m \ {MapGet(m, bx, v)}

-----------------------------------------------------------------------------
(* RcIndex.  set and ctx are not fields of the Rust struct: they record    *)
(* which IndexedHashSet issued the handle and which context holds it.      *)

NoRc == [set |-> 0, ctx |-> 0, inner |-> NoIndex, cnt |-> 0]

Idle == [op |-> "idle", call |-> "idle", rc |-> NoRc, tmp |-> 0]

\* the Rc<RefCell<usize>> that something still owns: an entry, a live handle
\* or a handle some context is in the middle of creating or dropping
CellsOwned(ar, hs, p) ==
    UNION {{ar[s].items[i].usage_cnt : i \in Occupied(ar[s])} : s \in Sets}
    \cup {h.cnt : h \in BagToSet(hs)}
    \cup {p[t].rc.cnt : t \in {u \in Contexts : p[u] # Idle}}

\* dropping the last Rc of a cell frees it
Release(ce, ar, hs, p) == Free(ce, (DOMAIN ce) \ CellsOwned(ar, hs, p))

\* an RcIndex::new that forgets to count
RcIndex_new_uncounted(ce, c) == ce

\* RcIndex::new: the counter cells after "*cnt += 1"
RcIndex_new(ce, c) == [ce EXCEPT ![c] = @ + 1]

\* an RcIndex::clone that forgets to count
RcIndex_clone_uncounted(ce, c) == ce

\* RcIndex::clone: the counter cells after "*cnt += 1"
RcIndex_clone(ce, c) == [ce EXCEPT ![c] = @ + 1]

\* RcIndex::drop: the counter cells after "*cnt -= 1"
RcIndex_drop(ce, c) == [ce EXCEPT ![c] = @ - 1]

-----------------------------------------------------------------------------
(* The results of calls. *)

Result(kind, val, n, rc) == [kind |-> kind, val |-> val, n |-> n, rc |-> rc]

RNone      == Result("None", NoElem, 0, NoRc)
RSome(v)   == Result("Some", v, 0, NoRc)
RSomeN(n)  == Result("Some", NoElem, n, NoRc)
RSomeRc(h) == Result("Some", NoElem, 0, h)
RRc(h)     == Result("RcIndex", NoElem, 0, h)
RUsize(n)  == Result("usize", NoElem, n, NoRc)
RRef(v)    == Result("&T", v, 0, NoRc)
RUnit      == Result("()", NoElem, 0, NoRc)
RPanic     == Result("panic", NoElem, 0, NoRc)

-----------------------------------------------------------------------------
(* IndexedHashSet and RcIndex: the methods that write nothing, as          *)
(* operators on a state st.                                                *)

\* Entry::cnt of the entry in slot i of arena a
EntryCnt(a, ce, i) == ce[a.items[i].usage_cnt]

\* Entry::elem of the entry in slot i of arena a
EntryElem(a, bx, i) == as_ref(bx, a.items[i].elem)

\* IndexedHashSet::len
len(st, s) == st.arena[s].len

\* a get_cnt that does not find the entries whose counter is 0
get_cnt_used(st, s, v) ==
    LET hit == MapGet(st.map[s], st.box, v)
    IN  IF hit = NoKV THEN RNone
        ELSE IF ~ArenaHas(st.arena[s], hit.idx) THEN RPanic
        ELSE IF EntryCnt(st.arena[s], st.cell, hit.idx.index) = 0 THEN RNone
        ELSE RSomeN(EntryCnt(st.arena[s], st.cell, hit.idx.index))

\* IndexedHashSet::get_cnt: arena[idx] panics on an index the arena lacks
get_cnt(st, s, v) ==
    LET hit == MapGet(st.map[s], st.box, v)
    IN  IF hit = NoKV THEN RNone
        ELSE IF ~ArenaHas(st.arena[s], hit.idx) THEN RPanic
        ELSE RSomeN(EntryCnt(st.arena[s], st.cell, hit.idx.index))

\* a get_ref_by_hash that skips unused entries, as iter does
get_ref_by_hash_used(st, s, v) ==
    LET hit == MapGet(st.map[s], st.box, v)
    IN  IF hit = NoKV \/ get_cnt(st, s, v) = RSomeN(0) THEN RNone
        ELSE RSome(as_ref(st.box, hit.key))

\* IndexedHashSet::get_ref_by_hash: the element the key found points to
get_ref_by_hash(st, s, v) ==
    LET hit == MapGet(st.map[s], st.box, v)
    IN  IF hit = NoKV THEN RNone ELSE RSome(as_ref(st.box, hit.key))

\* IndexedHashSet::get_ref_by_index
get_ref_by_index(st, s, h) ==
    IF ArenaHas(st.arena[s], h.inner)
    THEN RSome(EntryElem(st.arena[s], st.box, h.inner.index))
    ELSE RNone

\* Index<&RcIndex>::index, "set[&rc_idx]": get_ref_by_index(index).unwrap()
index(st, s, h) ==
    LET r == get_ref_by_index(st, s, h)
    IN  IF r = RNone THEN RPanic ELSE RRef(r.val)

\* an iter without the filter: the elements of all the occupied slots
RECURSIVE iter_from_all(_, _, _)
iter_from_all(st, s, i) ==
    IF i > Len(st.arena[s].items) THEN <<>>
    ELSE (IF st.arena[s].items[i].occupied
          THEN <<EntryElem(st.arena[s], st.box, i)>> ELSE <<>>)
         \o iter_from_all(st, s, i + 1)

\* IndexedHashSet::iter, collected: the elements of the occupied slots
\* whose count is not 0, in slot order, from slot i on
RECURSIVE iter_from(_, _, _)
iter_from(st, s, i) ==
    IF i > Len(st.arena[s].items) THEN <<>>
    ELSE (IF st.arena[s].items[i].occupied
             /\ EntryCnt(st.arena[s], st.cell, i) # 0
          THEN <<EntryElem(st.arena[s], st.box, i)>> ELSE <<>>)
         \o iter_from(st, s, i + 1)

iter(st, s) == iter_from(st, s, 1)

\* RcIndex::cnt
cnt(st, h) == st.cell[h.cnt]

-----------------------------------------------------------------------------
(* IndexedHashSet and RcIndex: the methods that write, as operators from   *)
(* the state st before a call to the state after it and the result.  A     *)
(* method of set s that makes a handle makes it in context t.              *)

Returns(st, ret) == [st |-> st, ret |-> ret]

\* IndexedHashSet::insert_unchecked: Entry::new boxes the element and makes
\* the counter cell, at 0; the entry goes into the arena and the key
\* pointing to the box into the map; RcIndex::new counts the handle returned
insert_unchecked(st, s, t, v) ==
    LET p   == Alloc(st.box, ArenaNextSlot(st.arena[s]))
        c   == Alloc(st.cell, ArenaNextSlot(st.arena[s]))
        ins == ArenaInsert(st.arena[s], p, c)
        rc  == [set |-> s, ctx |-> t, inner |-> ins.index, cnt |-> c]
    IN  Returns([arena   |-> [st.arena EXCEPT ![s] = ins.arena],
                 map     |-> [st.map EXCEPT ![s] = MapInsert(@, p, ins.index)],
                 box     |-> st.box @@ (p :> v),
                 cell    |-> RcIndex_new(st.cell @@ (c :> 0), c),
                 handles |-> st.handles (+) SetToBag({rc})],
                RRc(rc))

\* IndexedHashSet::aidx_to_rcidx: arena[a_idx] panics on an index the arena
\* lacks; RcIndex::new counts the handle returned
aidx_to_rcidx(st, s, t, a_idx) ==
    IF ~ArenaHas(st.arena[s], a_idx) THEN Returns(st, RPanic)
    ELSE LET c  == st.arena[s].items[a_idx.index].usage_cnt
             rc == [set |-> s, ctx |-> t, inner |-> a_idx, cnt |-> c]
         IN  Returns([st EXCEPT !.cell = RcIndex_new(@, c),
                                !.handles = @ (+) SetToBag({rc})],
                     RRc(rc))

\* Option::Some of the RcIndex a call returned
Some(r) == IF r.ret.kind = "RcIndex" THEN Returns(r.st, RSomeRc(r.ret.rc)) ELSE r

\* a get_index_by_hash that does not find the entries whose counter is 0
get_index_by_hash_used(st, s, t, v) ==
    LET hit == MapGet(st.map[s], st.box, v)
    IN  IF hit = NoKV \/ get_cnt(st, s, v) = RSomeN(0) THEN Returns(st, RNone)
        ELSE Some(aidx_to_rcidx(st, s, t, hit.idx))

\* IndexedHashSet::get_index_by_hash
get_index_by_hash_of(st, s, t, v) ==
    LET hit == MapGet(st.map[s], st.box, v)
    IN  IF hit = NoKV THEN Returns(st, RNone)
        ELSE Some(aidx_to_rcidx(st, s, t, hit.idx))

\* an insert that does not look the element up first
insert_always(st, s, t, v) == Some(insert_unchecked(st, s, t, v))

\* an insert that hands out the entry that is there, as get_or_insert does
insert_or_get(st, s, t, v) ==
    LET hit == MapGet(st.map[s], st.box, v)
    IN  IF hit # NoKV THEN Some(aidx_to_rcidx(st, s, t, hit.idx))
        ELSE Some(insert_unchecked(st, s, t, v))

\* IndexedHashSet::insert
insert_of(st, s, t, v) ==
    IF MapGet(st.map[s], st.box, v) # NoKV THEN Returns(st, RNone)
    ELSE Some(insert_unchecked(st, s, t, v))

\* a get_or_insert that does not look the element up first
get_or_insert_always(st, s, t, v) == insert_unchecked(st, s, t, v)

\* IndexedHashSet::get_or_insert
get_or_insert_of(st, s, t, v) ==
    LET hit == MapGet(st.map[s], st.box, v)
    IN  IF hit # NoKV THEN aidx_to_rcidx(st, s, t, hit.idx)
        ELSE insert_unchecked(st, s, t, v)

\* a test that takes every entry for unused
Unused_any(a, ce, i) == TRUE

\* a test that also takes an entry with one handle left for unused
UnusedOrLast(a, ce, i) == EntryCnt(a, ce, i) <= 1

\* the test of drop_unused's closure: "entry.cnt() == 0"
Unused(a, ce, i) == EntryCnt(a, ce, i) = 0

\* a sweep that stops at the first entry it removes
Retain_one(r, ce, i) ==
    LET un == {j \in i..Len(r.arena.items) :
                  r.arena.items[j].occupied /\ Unused(r.arena, ce, j)}
        k  == CHOOSE j \in un : \A l \in un : j <= l
        e  == r.arena.items[k]
    IN  IF un = {} THEN r
        ELSE [arena |-> ArenaRemove(r.arena,
                          [index |-> k, generation |-> e.generation]),
              map   |-> MapRemove(r.map, r.box, as_ref(r.box, e.elem)),
              box   |-> Free(r.box, {e.elem})]

\* the sweep of drop_unused, Arena::retain, from slot i on: r holds the
\* arena, the map and the boxes so far.  An entry whose count is 0 has its
\* key removed from the map by the closure, is then removed from the arena
\* and dropped, which frees its Box
RECURSIVE Retain(_, _, _)
Retain(r, ce, i) ==
    IF i > Len(r.arena.items) THEN r
    ELSE LET e == r.arena.items[i]
         IN  IF e.occupied /\ Unused(r.arena, ce, i)
             THEN Retain(
                    [arena |-> ArenaRemove(r.arena,
                                 [index |-> i, generation |-> e.generation]),
                     map   |-> MapRemove(r.map, r.box, as_ref(r.box, e.elem)),
                     box   |-> Free(r.box, {e.elem})],
                    ce, i + 1)
             ELSE Retain(r, ce, i + 1)

\* a drop_unused that reclaims nothing
drop_unused_idle(st, s) == Returns(st, RUsize(0))

\* IndexedHashSet::drop_unused: "before - arena.len()" is returned.  A
\* dropped entry's counter cell is freed unless a handle still shares it
drop_unused_of(st, s) ==
    LET r  == Retain([arena |-> st.arena[s], map |-> st.map[s],
                      box |-> st.box], st.cell, 1)
        ar == [st.arena EXCEPT ![s] = r.arena]
    IN  Returns([arena   |-> ar,
                 map     |-> [st.map EXCEPT ![s] = r.map],
                 box     |-> r.box,
                 cell    |-> Release(st.cell, ar, st.handles, pc),
                 handles |-> st.handles],
                RUsize(st.arena[s].len - r.arena.len))

\* RcIndex::clone
clone_of(st, h) ==
    Returns([st EXCEPT !.cell = RcIndex_clone(@, h.cnt),
                       !.handles = @ (+) SetToBag({h})],
            RRc(h))

\* a drop that reclaims at once what the handle leaves unused
drop_of_eager(st, h) ==
    LET hs == st.handles (-) SetToBag({h})
        d  == [st EXCEPT !.handles = hs,
                         !.cell = Release(RcIndex_drop(@, h.cnt), st.arena,
                                          hs, pc)]
    IN  Returns(drop_unused_of(d, h.set).st, RUnit)

\* RcIndex::drop, then the drop of the handle's Rc
drop_of(st, h) ==
    LET hs == st.handles (-) SetToBag({h})
    IN  Returns([st EXCEPT !.handles = hs,
                           !.cell = Release(RcIndex_drop(@, h.cnt), st.arena,
                                            hs, pc)],
                RUnit)

-----------------------------------------------------------------------------
(* The calls.  A method of IndexedHashSet runs in the context that owns    *)
(* the set, a method of RcIndex in the context that holds the handle, and  *)
(* a context starts a call only when it is not in the middle of another.   *)

Init ==
    /\ arena = [s \in Sets |-> ArenaNew]
    /\ map = [s \in Sets |-> {}]
    /\ box = << >>
    /\ cell = << >>
    /\ handles = EmptyBag
    /\ last = "new"
    /\ owner = [s \in Sets |-> 1]
    /\ pc = [t \in Contexts |-> Idle]

\* the handles being made by a context in the middle of a call
Making == Cardinality({t \in Contexts : pc[t].op \in {"new", "clone"}})

\* the state r.st is within the bounds of the model
Within(r) ==
    /\ BagCardinality(r.st.handles) + Making <= MaxHandles
    /\ \A s \in Sets : r.st.arena[s].generation <= MaxGen

\* the call named name takes the state to r.st
Apply(r, name) ==
    /\ Within(r)
    /\ arena' = r.st.arena
    /\ map' = r.st.map
    /\ box' = r.st.box
    /\ cell' = r.st.cell
    /\ handles' = r.st.handles
    /\ last' = name
    /\ UNCHANGED <<owner, pc>>

\* the live handles
Live == BagToSet(handles)

insert(s, v) ==
    /\ pc[owner[s]] = Idle
    /\ Apply(insert_of(St, s, owner[s], v), "insert")

get_or_insert(s, v) ==
    /\ pc[owner[s]] = Idle
    /\ Apply(get_or_insert_of(St, s, owner[s], v), "get_or_insert")

get_index_by_hash(s, v) ==
    /\ pc[owner[s]] = Idle
    /\ Apply(get_index_by_hash_of(St, s, owner[s], v), "get_index_by_hash")

drop_unused(s) ==
    /\ pc[owner[s]] = Idle
    /\ Apply(drop_unused_of(St, s), "drop_unused")

clone(h) ==
    /\ pc[h.ctx] = Idle
    /\ Apply(clone_of(St, h), "clone")

drop(h) ==
    /\ pc[h.ctx] = Idle
    /\ Apply(drop_of(St, h), "drop")

\* one owner of one set: the calls on set 1 and on its handles
Next ==
    \/ \E v \in Values : insert(1, v)
    \/ \E v \in Values : get_or_insert(1, v)
    \/ \E v \in Values : get_index_by_hash(1, v)
    \/ \E h \in Live : clone(h)
    \/ \E h \in Live : drop(h)
    \/ drop_unused(1)

Spec == Init /\ [][Next]_vars

-----------------------------------------------------------------------------
(* The same calls with no record of the last one: the sets, the heap and   *)
(* the handles go through the states they go through under Spec, and each  *)
(* is met once whatever call led to it.                                    *)

\* a call takes the state to r.st
Call(r) ==
    /\ Within(r)
    /\ arena' = r.st.arena
    /\ map' = r.st.map
    /\ box' = r.st.box
    /\ cell' = r.st.cell
    /\ handles' = r.st.handles
    /\ UNCHANGED <<last, owner, pc>>

NextCalls ==
    \/ \E v \in Values : Call(insert_of(St, 1, owner[1], v))
    \/ \E v \in Values : Call(get_or_insert_of(St, 1, owner[1], v))
    \/ \E v \in Values : Call(get_index_by_hash_of(St, 1, owner[1], v))
    \/ \E h \in Live : Call(clone_of(St, h))
    \/ \E h \in Live : Call(drop_of(St, h))
    \/ Call(drop_unused_of(St, 1))

SpecCalls == Init /\ [][NextCalls]_vars

-----------------------------------------------------------------------------
(* Two sets in one context, each with its own handles. *)

\* the elements set s is given: one for the first set, two for the second
Given(s) == IF s = 1 THEN {"Olaf"} ELSE {"Olaf", "Eijnar"}

NextTwo ==
    \/ \E s \in Sets : \E v \in Given(s) : insert(s, v)
    \/ \E h \in Live : clone(h)
    \/ \E h \in Live : drop(h)
    \/ \E s \in Sets : drop_unused(s)

SpecTwo == Init /\ [][NextTwo]_vars

-----------------------------------------------------------------------------
(* A set moved to another context ("unsafe impl Send for IndexedHashSet")  *)
(* while handles stay behind.  RcIndex is not Send, so a handle stays in   *)
(* the context that made it, and nothing orders the "*cnt += 1" and        *)
(* "*cnt -= 1" of one context with those of the other on the same          *)
(* Rc<RefCell<usize>>: each is a load and a store, and the steps of the    *)
(* two contexts interleave.  (The borrow flag of the RefCell and the       *)
(* strong count of the Rc are written the same way; the model follows the  *)
(* usage count only.)                                                      *)

\* the set is moved to context to
send(s, to) ==
    /\ owner[s] # to
    /\ pc[owner[s]] = Idle
    /\ owner' = [owner EXCEPT ![s] = to]
    /\ last' = "send"
    /\ UNCHANGED <<arena, map, box, cell, handles, pc>>

\* context t loads the usage count of the handle rc it is making or dropping
Load(t, op, call, rc) ==
    pc' = [pc EXCEPT ![t] = [op |-> op, call |-> call, rc |-> rc,
                             tmp |-> cell[rc.cnt]]]

\* get_index_by_hash or get_or_insert on an element that is there, up to
\* the load of "*cnt += 1" in RcIndex::new
new_load(s, v, call) ==
    LET hit == MapGet(map[s], box, v)
        t   == owner[s]
    IN  /\ pc[t] = Idle
        /\ hit # NoKV
        /\ ArenaHas(arena[s], hit.idx)
        /\ BagCardinality(handles) + Making < MaxHandles
        /\ Load(t, "new", call,
                [set |-> s, ctx |-> t, inner |-> hit.idx,
                 cnt |-> arena[s].items[hit.idx.index].usage_cnt])
        /\ UNCHANGED <<arena, map, box, cell, handles, last, owner>>

\* RcIndex::clone up to the load of "*cnt += 1"
clone_load(h) ==
    /\ pc[h.ctx] = Idle
    /\ BagCardinality(handles) + Making < MaxHandles
    /\ Load(h.ctx, "clone", "clone", h)
    /\ UNCHANGED <<arena, map, box, cell, handles, last, owner>>

\* the store of "*cnt += 1": the handle is made.  A count that lost
\* decrements is followed up to MaxHandles
inc_store(t) ==
    /\ pc[t].op \in {"new", "clone"}
    /\ pc[t].tmp < MaxHandles
    /\ cell' = [cell EXCEPT ![pc[t].rc.cnt] = pc[t].tmp + 1]
    /\ handles' = handles (+) SetToBag({pc[t].rc})
    /\ pc' = [pc EXCEPT ![t] = Idle]
    /\ last' = pc[t].call
    /\ UNCHANGED <<arena, map, box, owner>>

\* RcIndex::drop up to the load of "*cnt -= 1"
drop_load(h) ==
    /\ pc[h.ctx] = Idle
    /\ handles' = handles (-) SetToBag({h})
    /\ Load(h.ctx, "drop", "drop", h)
    /\ UNCHANGED <<arena, map, box, cell, last, owner>>

\* the store of "*cnt -= 1", then the drop of the handle's Rc.  A count
\* that lost increments is followed down to usize::MAX (0 - 1), not below
dec_store(t) ==
    /\ pc[t].op = "drop"
    /\ pc[t].tmp >= 0
    /\ pc' = [pc EXCEPT ![t] = Idle]
    /\ cell' = Release([cell EXCEPT ![pc[t].rc.cnt] = pc[t].tmp - 1],
                       arena, handles, pc')
    /\ last' = "drop"
    /\ UNCHANGED <<arena, map, box, handles, owner>>

\* the element the set is given, by context 1, before it is moved
SendValues == {"Olaf"}

NextSend ==
    \/ \E v \in SendValues : (owner[1] = 1 /\ insert(1, v))
    \/ drop_unused(1)
    \/ send(1, 2)
    \/ \E v \in SendValues, call \in {"get_index_by_hash", "get_or_insert"} :
            new_load(1, v, call)
    \/ \E h \in Live : clone_load(h)
    \/ \E h \in Live : drop_load(h)
    \/ \E t \in Contexts : inc_store(t)
    \/ \E t \in Contexts : dec_store(t)

SpecSend == Init /\ [][NextSend]_vars

-----------------------------------------------------------------------------
(* The properties.  Those of a single call are stated of the operator of   *)
(* the method, applied to every reachable state and every argument.        *)

\* an entry equal to v is in the store of set s
Stored(st, s, v) ==
    \E i \in Occupied(st.arena[s]) : EntryElem(st.arena[s], st.box, i) = v

\* the index of the occupied slot i of set s
IndexOf(st, s, i) ==
    [index |-> i, generation |-> st.arena[s].items[i].generation]

\* the number of live handles that refer to slot i of set s
HandlesOn(st, s, i) ==
    LET on == {h \in BagToSet(st.handles) :
                  h.set = s /\ h.inner = IndexOf(st, s, i)}
    IN  IF on = {} THEN 0 ELSE BagCardinality([h \in on |-> st.handles[h]])

\* the occupied slots of set s whose counter is 0
UnusedSlots(st, s) ==
    {i \in Occupied(st.arena[s]) : EntryCnt(st.arena[s], st.cell, i) = 0}

\* C1.  Uniqueness: whatever calls were made, the store never holds two
\* entries with equal values, entries whose counter is 0 and that are not
\* yet reclaimed included.
Uniqueness ==
    \A i, j \in Occupied(arena[1]) :
        EntryElem(arena[1], box, i) = EntryElem(arena[1], box, j) => i = j

\* C1 happens: an insert was called on a full store (every element of the
\* model stored) in which an entry with counter 0 waits to be reclaimed.
UniquenessWitness ==
    /\ last = "insert"
    /\ len(St, 1) = Cardinality(Values)
    /\ UnusedSlots(St, 1) # {}

\* C2.  Counter accuracy: the usage counter of every entry is the number of
\* live handles that refer to it, and get_cnt and RcIndex::cnt report that
\* number; every live handle refers to an entry and shares its counter.
CounterAccuracy ==
    /\ \A i \in Occupied(arena[1]) :
          /\ EntryCnt(arena[1], cell, i) = HandlesOn(St, 1, i)
          /\ get_cnt(St, 1, EntryElem(arena[1], box, i))
                = RSomeN(HandlesOn(St, 1, i))
    /\ \A h \in Live :
          /\ ArenaHas(arena[1], h.inner)
          /\ h.cnt = arena[1].items[h.inner.index].usage_cnt
          /\ cnt(St, h) = HandlesOn(St, 1, h.inner.index)

\* C2 happens: after insert, get_index_by_hash and clone an entry has three
\* live handles, and the clone was the last call.
CounterAccuracyWitness ==
    /\ last = "clone"
    /\ \E h \in Live : cnt(St, h) = 3 /\ HandlesOn(St, 1, h.inner.index) = 3

\* C3.  Reclamation: drop_unused removes exactly the entries whose counter
\* is 0 when it is called, keeps every other entry with its value, its
\* counter and its slot, returns the number of entries removed, and len()
\* after it is len() before it less that number.
Reclamation ==
    LET r == drop_unused_of(St, 1)
        a == arena[1]
        b == r.st.arena[1]
    IN  /\ \A i \in Occupied(a) :
              IF EntryCnt(a, cell, i) = 0
              THEN /\ i \notin Occupied(b)
                   /\ ~Stored(r.st, 1, EntryElem(a, box, i))
              ELSE /\ b.items[i] = a.items[i]
                   /\ EntryElem(b, r.st.box, i) = EntryElem(a, box, i)
                   /\ EntryCnt(b, r.st.cell, i) = EntryCnt(a, cell, i)
        /\ Occupied(b) \subseteq Occupied(a)
        /\ r.ret = RUsize(Cardinality(UnusedSlots(St, 1)))
        /\ len(r.st, 1) = len(St, 1) - r.ret.n

\* C3 happens: drop_unused is called on a store with two unused entries and
\* one in use; it returns 2 and leaves the one.
ReclamationWitness ==
    /\ Cardinality(UnusedSlots(St, 1)) = 2
    /\ len(St, 1) = 3
    /\ drop_unused_of(St, 1).ret = RUsize(2)
    /\ len(drop_unused_of(St, 1).st, 1) = 1

\* C4.  A handle that another set issued is refused: get_ref_by_index on a
\* set with a handle of another set returns None and the indexing form
\* panics, whatever calls were made on either set.
ForeignHandleRefused ==
    \A s \in Sets : \A h \in Live :
        h.set # s => /\ get_ref_by_index(St, s, h) = RNone
                     /\ index(St, s, h) = RPanic

\* what a step keeps: every entry, unless the step is a drop_unused and the
\* counter of the entry is 0; and all but the counter when it is a drop
Retained ==
    /\ \A i \in Occupied(arena[1]) :
          (last' # "drop_unused" \/ EntryCnt(arena[1], cell, i) > 0)
          => /\ arena'[1].items[i] = arena[1].items[i]
             /\ EntryElem(arena'[1], box', i) = EntryElem(arena[1], box, i)
             /\ get_ref_by_hash(St', 1, EntryElem(arena[1], box, i))
                   = RSome(EntryElem(arena[1], box, i))
    /\ last' = "drop"
          => /\ len(St', 1) = len(St, 1)
             /\ \A v \in Values :
                   /\ get_ref_by_hash(St', 1, v) = get_ref_by_hash(St, 1, v)
                   /\ get_cnt(St', 1, v).kind = get_cnt(St, 1, v).kind

\* C5.  Lazy reclamation: no call but drop_unused removes an entry, and
\* drop_unused removes none whose counter is above 0: such an entry keeps
\* its slot, its value and its key.  Dropping a handle, the last one too,
\* leaves len() and what get_ref_by_hash finds as they were, and get_cnt
\* still finds the entry.
LazyReclamation == [][Retained]_vars

\* C5 happens: the last handle of an entry was dropped and the entry is
\* still in the store, with counter 0.
LazyReclamationWitness ==
    /\ last = "drop"
    /\ handles = EmptyBag
    /\ \E v \in Values : get_cnt(St, 1, v) = RSomeN(0)

\* C6.  insert of an element that is in the store, whatever its counter,
\* returns None and changes nothing: not len(), not the stored values, not
\* a counter, not a slot.
InsertPresent ==
    \A v \in Values :
        Stored(St, 1, v) => insert_of(St, 1, 1, v) = Returns(St, RNone)

\* C6 happens: the last call was an insert and the only entry of the store
\* has counter 0, so that insert was refused (an insert that stores makes a
\* handle).
InsertPresentWitness ==
    /\ last = "insert"
    /\ len(St, 1) = 1
    /\ Cardinality(UnusedSlots(St, 1)) = 1

\* C7.  insert of an element that is not in the store returns a handle
\* whose counter is 1 and makes len() one more; once that handle is dropped
\* without a clone the counter is 0 and the next drop_unused removes the
\* entry.  A drop_unused on a store of unused entries only returns their
\* number and leaves len() = 0.
InsertAbsent ==
    /\ \A v \in Values :
          ~Stored(St, 1, v)
          => LET r == insert_of(St, 1, 1, v)
                 d == drop_of(r.st, r.ret.rc)
                 u == drop_unused_of(d.st, 1)
             IN  /\ r.ret.kind = "Some"
                 /\ r.ret.rc # NoRc
                 /\ cnt(r.st, r.ret.rc) = 1
                 /\ get_ref_by_index(r.st, 1, r.ret.rc) = RSome(v)
                 /\ len(r.st, 1) = len(St, 1) + 1
                 /\ get_cnt(d.st, 1, v) = RSomeN(0)
                 /\ len(d.st, 1) = len(St, 1) + 1
                 /\ ~Stored(u.st, 1, v)
    /\ UnusedSlots(St, 1) = Occupied(arena[1])
          => /\ drop_unused_of(St, 1).ret = RUsize(len(St, 1))
             /\ len(drop_unused_of(St, 1).st, 1) = 0

\* C7 happens: three elements were inserted and each handle dropped; the
\* drop_unused called now returns 3 and leaves len() = 0.
InsertAbsentWitness ==
    /\ last = "drop"
    /\ len(St, 1) = 3
    /\ handles = EmptyBag
    /\ drop_unused_of(St, 1).ret = RUsize(3)
    /\ len(drop_unused_of(St, 1).st, 1) = 0

\* C8.  Lookup consistency: get_ref_by_hash(v) returns Some(v) if an entry
\* equal to v is in the store, whatever its counter, and None if not.
LookupConsistency ==
    \A v \in Values :
        get_ref_by_hash(St, 1, v)
            = IF Stored(St, 1, v) THEN RSome(v) ELSE RNone

\* C8 happens: get_ref_by_hash finds an entry whose counter is 0 and does
\* not find an element that is not stored.
LookupConsistencyWitness ==
    /\ \E v \in Values :
          get_cnt(St, 1, v) = RSomeN(0) /\ get_ref_by_hash(St, 1, v) = RSome(v)
    /\ \E v \in Values : get_ref_by_hash(St, 1, v) = RNone

\* C9.  Index correctness and reference validity: the map and the arena
\* correspond one to one.  Every key points to a live Box, the one of the
\* entry its index resolves to, and every entry has a key; so drop_unused
\* never removes a key without its entry or an entry without its key.
MapValid ==
    /\ \A e \in map[1] :
          /\ e.key \in DOMAIN box
          /\ ArenaHas(arena[1], e.idx)
          /\ arena[1].items[e.idx.index].elem = e.key
    /\ \A i \in Occupied(arena[1]) :
          \E e \in map[1] : e.idx = IndexOf(St, 1, i)
    /\ Cardinality(map[1]) = len(St, 1)
    /\ Cardinality(Occupied(arena[1])) = len(St, 1)

\* C9 happens: drop_unused has removed an entry and kept another, whose key
\* is still in the map.
MapValidWitness ==
    /\ last = "drop_unused"
    /\ arena[1].generation > 0
    /\ len(St, 1) > 0
    /\ map[1] # {}

\* C10.  The set may be moved to another context while handles stay in the
\* first: whenever no context is in the middle of a call, the counter of
\* every entry is its number of live handles, and every live handle still
\* finds its entry (no entry with a live handle was reclaimed).
SendKeepsCounts ==
    (\A t \in Contexts : pc[t] = Idle)
    => /\ \A i \in Occupied(arena[1]) :
             EntryCnt(arena[1], cell, i) = HandlesOn(St, 1, i)
       /\ \A h \in Live : ArenaHas(arena[1], h.inner)

\* the occupied slot of set s that holds an entry equal to v, 0 if none does
SlotOf(st, s, v) ==
    LET at == {i \in Occupied(st.arena[s]) :
                  EntryElem(st.arena[s], st.box, i) = v}
    IN  IF at = {} THEN 0 ELSE CHOOSE i \in at : TRUE

\* C11.  get_or_insert(v) always returns a handle.  If an entry equal to v
\* is in the store the handle is to that slot, the counter of the entry is
\* one more and len() is as before; if not, an entry is made, len() is one
\* more and the counter of the handle is 1.  The counter of no other entry
\* changes.
GetOrInsert ==
    \A v \in Values : \A r \in {get_or_insert_of(St, 1, 1, v)} :
        LET i == SlotOf(St, 1, v)
        IN  /\ r.ret.kind = "RcIndex"
            /\ r.ret.rc # NoRc
            /\ get_ref_by_index(r.st, 1, r.ret.rc) = RSome(v)
            /\ IF i # 0
               THEN /\ r.ret.rc.inner = IndexOf(St, 1, i)
                    /\ r.st.arena = arena
                    /\ cnt(r.st, r.ret.rc) = EntryCnt(arena[1], cell, i) + 1
                    /\ EntryCnt(r.st.arena[1], r.st.cell, i)
                          = EntryCnt(arena[1], cell, i) + 1
                    /\ len(r.st, 1) = len(St, 1)
               ELSE /\ r.ret.rc.inner.index \notin Occupied(arena[1])
                    /\ cnt(r.st, r.ret.rc) = 1
                    /\ len(r.st, 1) = len(St, 1) + 1
            /\ \A j \in Occupied(arena[1]) \ {i} :
                  /\ r.st.arena[1].items[j] = arena[1].items[j]
                  /\ EntryCnt(r.st.arena[1], r.st.cell, j)
                        = EntryCnt(arena[1], cell, j)

\* C11 happens: get_or_insert is called for an element stored with two
\* live handles and returns a third, and for an element not stored, next to
\* an entry with counter 0 that neither call touches.
GetOrInsertWitness ==
    /\ UnusedSlots(St, 1) # {}
    /\ \E v \in Values :
          /\ get_cnt(St, 1, v) = RSomeN(2)
          /\ cnt(get_or_insert_of(St, 1, 1, v).st,
                 get_or_insert_of(St, 1, 1, v).ret.rc) = 3
    /\ \E v \in Values :
          /\ ~Stored(St, 1, v)
          /\ cnt(get_or_insert_of(St, 1, 1, v).st,
                 get_or_insert_of(St, 1, 1, v).ret.rc) = 1
          /\ len(get_or_insert_of(St, 1, 1, v).st, 1) = 3

\* the elements a sequence holds
Range(q) == {q[k] : k \in 1..Len(q)}

\* the occupied slots of set s whose counter is not 0
UsedSlots(st, s) == Occupied(st.arena[s]) \ UnusedSlots(st, s)

\* C12.  iter() yields exactly the values of the entries whose counter is
\* not 0, each once, and never an entry whose counter is 0, which len()
\* still counts.  (iter takes &self and writes nothing: a second call with
\* no call in between yields the same.)
IterUsed ==
    LET it == iter(St, 1)
    IN  /\ Range(it) = {EntryElem(arena[1], box, i) : i \in UsedSlots(St, 1)}
        /\ Len(it) = Cardinality(UsedSlots(St, 1))
        /\ \A k, l \in 1..Len(it) : it[k] = it[l] => k = l
        /\ \A i \in UnusedSlots(St, 1) :
              EntryElem(arena[1], box, i) \notin Range(it)
        /\ Len(it) + Cardinality(UnusedSlots(St, 1)) = len(St, 1)

\* C12 happens: iter yields two elements of a store of three, the third
\* having counter 0.
IterUsedWitness ==
    /\ len(St, 1) = 3
    /\ Len(iter(St, 1)) = 2
    /\ Cardinality(UnusedSlots(St, 1)) = 1

\* C13.  len() is the number of entries in the store, those with counter 0
\* that are not reclaimed included: the number of values iter() yields plus
\* the number of entries with counter 0.  Only an insert of an element not
\* in the store, a get_or_insert of one and drop_unused change len(): the
\* first two make it one more, drop_unused takes the number of entries with
\* counter 0 off, and after every other call it is as before.
LenCounts ==
    /\ len(St, 1) = Cardinality(Occupied(arena[1]))
    /\ len(St, 1) = Len(iter(St, 1)) + Cardinality(UnusedSlots(St, 1))
    /\ \A v \in Values : \A d \in {IF Stored(St, 1, v) THEN 0 ELSE 1} :
              /\ len(insert_of(St, 1, 1, v).st, 1) = len(St, 1) + d
              /\ len(get_or_insert_of(St, 1, 1, v).st, 1) = len(St, 1) + d
              /\ len(get_index_by_hash_of(St, 1, 1, v).st, 1) = len(St, 1)
    /\ \A h \in Live :
          /\ len(clone_of(St, h).st, 1) = len(St, 1)
          /\ len(drop_of(St, h).st, 1) = len(St, 1)
    /\ len(drop_unused_of(St, 1).st, 1)
          = len(St, 1) - Cardinality(UnusedSlots(St, 1))

\* C13 happens: after a drop_unused that removed an entry, len() counts two
\* entries, one in use and one with counter 0.
LenCountsWitness ==
    /\ arena[1].generation > 0
    /\ len(St, 1) = 2
    /\ Len(iter(St, 1)) = 1
    /\ Cardinality(UnusedSlots(St, 1)) = 1

\* C14.  get_cnt(q) returns Some(c), c the counter of the stored entry
\* equal to q (Some(0) for an entry not in use and not reclaimed), and None
\* when no entry equal to q is stored; it never panics, and the cnt() of
\* every live handle of the entry is c.  (get_cnt takes &self and writes
\* nothing.)
GetCnt ==
    /\ \A q \in Values :
          LET i == SlotOf(St, 1, q)
          IN  /\ get_cnt(St, 1, q) # RPanic
              /\ get_cnt(St, 1, q)
                    = IF i = 0 THEN RNone
                      ELSE RSomeN(EntryCnt(arena[1], cell, i))
    /\ \A h \in Live :
          get_cnt(St, 1, get_ref_by_index(St, 1, h).val) = RSomeN(cnt(St, h))

\* C14 happens: get_cnt returns Some(2) for an entry with two live handles,
\* Some(0) for an entry not in use and None for an element not stored.
GetCntWitness ==
    /\ \E h \in Live :
          /\ cnt(St, h) = 2
          /\ get_cnt(St, 1, get_ref_by_index(St, 1, h).val) = RSomeN(2)
    /\ \E q \in Values : get_cnt(St, 1, q) = RSomeN(0)
    /\ \E q \in Values : get_cnt(St, 1, q) = RNone

\* the handles of st that are live after the call with outcome r as well,
\* with what they resolve to before it and after it
StillResolves(st, r) ==
    \A h \in BagToSet(st.handles) \cap BagToSet(r.st.handles) :
        /\ get_ref_by_index(r.st, 1, h) = get_ref_by_index(st, 1, h)
        /\ index(r.st, 1, h) = index(st, 1, h)

\* C15.  A live handle is never stale in the set that issued it.  The
\* handle a call returns for v resolves to v; every live handle resolves,
\* by get_ref_by_index to Some of a stored value and by the indexing form
\* without a panic; and whatever call comes next (drop_unused and the
\* inserts that fill freed slots too) a handle that stays live resolves to
\* the value it resolved to before.
NeverStale ==
    /\ \A h \in Live :
          /\ get_ref_by_index(St, 1, h).kind = "Some"
          /\ get_ref_by_index(St, 1, h).val \in Values
          /\ index(St, 1, h) = RRef(get_ref_by_index(St, 1, h).val)
    /\ \A v \in Values :
          /\ \A r \in {insert_of(St, 1, 1, v)} :
                /\ StillResolves(St, r)
                /\ r.ret # RNone
                      => get_ref_by_index(r.st, 1, r.ret.rc) = RSome(v)
          /\ \A r \in {get_or_insert_of(St, 1, 1, v)} :
                /\ StillResolves(St, r)
                /\ get_ref_by_index(r.st, 1, r.ret.rc) = RSome(v)
          /\ \A r \in {get_index_by_hash_of(St, 1, 1, v)} :
                /\ StillResolves(St, r)
                /\ r.ret # RNone
                      => get_ref_by_index(r.st, 1, r.ret.rc) = RSome(v)
    /\ \A h \in Live :
          /\ \A r \in {clone_of(St, h)} :
                /\ StillResolves(St, r)
                /\ get_ref_by_index(r.st, 1, r.ret.rc)
                      = get_ref_by_index(St, 1, h)
          /\ \A r \in {drop_of(St, h)} : StillResolves(St, r)
    /\ \A r \in {drop_unused_of(St, 1)} : StillResolves(St, r)

\* C15 happens: a handle issued before a drop_unused removed another entry
\* is live and resolves, and the freed slot, below the handle's, was filled
\* again by a later insert.
NeverStaleWitness ==
    \E h \in Live :
        /\ h.inner.generation = 0
        /\ get_ref_by_index(St, 1, h).kind = "Some"
        /\ \E j \in Occupied(arena[1]) :
              /\ j < h.inner.index
              /\ arena[1].items[j].generation > 0

\* the call with outcome r on the entry equal to v, whose counter is 0,
\* revives it: the handle is to the slot the entry is in, the counter is 1,
\* and a drop_unused that follows keeps the entry, which iter() yields
Revives(st, r, v) ==
    \A u \in {drop_unused_of(r.st, 1)} :
        /\ r.ret.rc # NoRc
        /\ r.ret.rc.inner = IndexOf(st, 1, SlotOf(st, 1, v))
        /\ r.st.arena = st.arena
        /\ cnt(r.st, r.ret.rc) = 1
        /\ get_cnt(r.st, 1, v) = RSomeN(1)
        /\ v \in Range(iter(r.st, 1))
        /\ u.st.arena[1].items[r.ret.rc.inner.index]
              = st.arena[1].items[r.ret.rc.inner.index]
        /\ get_ref_by_index(u.st, 1, r.ret.rc) = RSome(v)
        /\ get_cnt(u.st, 1, v) = RSomeN(1)
        /\ v \in Range(iter(u.st, 1))

\* C16.  Revival: when the counter of the entry equal to v is 0 and
\* drop_unused has not run (iter() does not yield v), get_index_by_hash(v)
\* and get_or_insert(v) return a handle to the same slot and the counter is
\* 1; with that handle live a drop_unused that follows does not remove the
\* entry, and iter() yields it again.
Revival ==
    \A v \in Values :
        get_cnt(St, 1, v) = RSomeN(0)
        => /\ v \notin Range(iter(St, 1))
           /\ \A r \in {get_index_by_hash_of(St, 1, 1, v)} :
                 r.ret.kind = "Some" /\ Revives(St, r, v)
           /\ \A r \in {get_or_insert_of(St, 1, 1, v)} :
                 r.ret.kind = "RcIndex" /\ Revives(St, r, v)

\* C16 happens: in a store that drop_unused has swept before, an entry has
\* lost its handles and iter() passes it over; get_index_by_hash returns a
\* handle on it with counter 1 and the drop_unused that follows removes
\* another entry and keeps this one.
RevivalWitness ==
    /\ arena[1].generation > 0
    /\ Cardinality(UnusedSlots(St, 1)) = 2
    /\ \E v \in Values :
          /\ get_cnt(St, 1, v) = RSomeN(0)
          /\ v \notin Range(iter(St, 1))
          /\ \E r \in {get_index_by_hash_of(St, 1, 1, v)} :
                /\ r.ret.kind = "Some"
                /\ cnt(r.st, r.ret.rc) = 1
                /\ drop_unused_of(r.st, 1).ret = RUsize(1)
                /\ v \in Range(iter(drop_unused_of(r.st, 1).st, 1))

\* C17.  Insert after reclamation: once drop_unused has removed the entry
\* equal to v, get_ref_by_hash(v), get_cnt(v) and get_index_by_hash(v)
\* return None, and an insert(v) that follows returns a handle whose
\* counter is 1, a counter of its own that nothing of the entry removed
\* shares, and makes len() one more.
InsertAfterReclaim ==
    \A v \in Values :
        get_cnt(St, 1, v) = RSomeN(0)
        => \A u \in {drop_unused_of(St, 1)} :
           \A r \in {insert_of(u.st, 1, 1, v)} :
           LET old == arena[1].items[SlotOf(St, 1, v)].usage_cnt
               new == r.ret.rc
           IN  /\ old \notin DOMAIN u.st.cell
               /\ get_ref_by_hash(u.st, 1, v) = RNone
               /\ get_cnt(u.st, 1, v) = RNone
               /\ get_index_by_hash_of(u.st, 1, 1, v) = Returns(u.st, RNone)
               /\ r.ret.kind = "Some"
               /\ new # NoRc
               /\ new.cnt \notin DOMAIN u.st.cell
               /\ cnt(r.st, new) = 1
               /\ get_cnt(r.st, 1, v) = RSomeN(1)
               /\ get_ref_by_index(r.st, 1, new) = RSome(v)
               /\ len(r.st, 1) = len(u.st, 1) + 1

\* C17 happens: drop_unused removes an entry with counter 0 from a store
\* that holds an entry in use as well; the element is not found and is then
\* inserted again, with counter 1, into the slot that was freed.
InsertAfterReclaimWitness ==
    /\ UsedSlots(St, 1) # {}
    /\ \E v \in Values :
          /\ get_cnt(St, 1, v) = RSomeN(0)
          /\ \E u \in {drop_unused_of(St, 1)} :
             \E r \in {insert_of(u.st, 1, 1, v)} :
                /\ u.ret = RUsize(1)
                /\ get_ref_by_hash(u.st, 1, v) = RNone
                /\ r.ret.kind = "Some"
                /\ r.ret.rc.inner.index = SlotOf(St, 1, v)
                /\ r.ret.rc.inner.generation > 0
                /\ cnt(r.st, r.ret.rc) = 1

\* C18.  drop_unused is idempotent: a drop_unused called directly after
\* another returns 0 and leaves len(), the stored values and every counter
\* as they are; after any drop_unused every entry left has a counter above
\* 0, so len() is the number of values iter() yields.
DropUnusedIdempotent ==
    \A u \in {drop_unused_of(St, 1)} :
        /\ drop_unused_of(u.st, 1) = Returns(u.st, RUsize(0))
        /\ UnusedSlots(u.st, 1) = {}
        /\ len(u.st, 1) = Len(iter(u.st, 1))
        /\ \A i \in Occupied(u.st.arena[1]) :
              EntryCnt(u.st.arena[1], u.st.cell, i) > 0

\* C18 happens: a drop_unused removes one of three entries and a second
\* one, called on what it leaves, returns 0 and leaves the two entries.
DropUnusedIdempotentWitness ==
    /\ len(St, 1) = 3
    /\ \E u \in {drop_unused_of(St, 1)} :
          /\ u.ret = RUsize(1)
          /\ drop_unused_of(u.st, 1).ret = RUsize(0)
          /\ len(drop_unused_of(u.st, 1).st, 1) = 2

=============================================================================
